---- MODULE Spec2Model ----
(***************************************************************************)
(* Model of the impact texture packer: the MaxRects free-rectangle engine  *)
(* (src/src/bin_packs/max_rects.rs), the rectangle primitives              *)
(* (src/src/rect.rs), the per-bin Packer (src/src/packer.rs) and the       *)
(* multi-bin session loop of main (src/src/main.rs).                       *)
(***************************************************************************)
EXTENDS Integers, Sequences, FiniteSets, TLC

(***************************************************************************)
(* Bounds of the model.                                                    *)
(***************************************************************************)
MaxBin == 3      \* largest bin side explored by the engine specification
MaxDim == 2      \* largest item side handed to insert
MaxUsed == 3     \* inserts are explored while fewer rectangles are placed
PackSize == 3    \* opt.size of the session: the side of every Packer's bin
MaxImages == 3   \* longest image queue handed to the session
MaxCoord == 1    \* largest x and y of a rectangle handed to add
MaxRects == 3    \* add is explored while the collection holds no more
MaxList == 2     \* longest list handed to insert_list

(***************************************************************************)
(* Program constants.                                                      *)
(***************************************************************************)
I32Max == 2147483647

FreeRectChoiceHeuristic ==
    {"RectBestShortSideFit", "RectBestLongSideFit", "RectBestAreaFit",
     "RectBottomLeftRule", "RectContactPointRule"}

VARIABLES
    bin_width,          \* MaxRectsBinPack.bin_width
    bin_height,         \* MaxRectsBinPack.bin_height
    used_rectangles,    \* MaxRectsBinPack.used_rectangles (Vec<Rect>)
    free_rectangles,    \* MaxRectsBinPack.free_rectangles (Vec<Rect>)
    overflow_checks,    \* build profile: TRUE when integer overflow panics
    call,               \* the last insert call: returned Rect and outcome
    pc,                 \* position of the program (main and Packer::pack)
    opt,                \* main's options: size, pad, unique, rotate, heuristic
    input,              \* main's images as loaded and sorted (never changed)
    images,             \* main's images: the queue shared by all Packers
    packer,             \* the Packer being packed (main's local `packer`)
    ww,                 \* pack's local ww: largest placement far x
    hh,                 \* pack's local hh: largest placement far y
    packers,            \* main's packers: the finished bins
    rects,              \* DisjointRectCollection.rects (Vec<Rect>)
    add_ret,            \* the bool the last DisjointRectCollection::add returned
    list_src,           \* insert_list's argument `rects` (never changed)
    list_rects,         \* insert_list's local `rects`: the rects not yet placed
    dst,                \* insert_list's local `dst`: the placements so far
    list_rot,           \* insert_list's argument `rot`
    list_method,        \* insert_list's argument `method`
    cmp_args,           \* the two Rects the last comparator call was given
    cmp_ret             \* the comparator called and the Ordering it returned

engine_vars == <<bin_width, bin_height, used_rectangles, free_rectangles,
                 overflow_checks, call>>
session_vars == <<pc, opt, input, images, packer, ww, hh, packers>>
collection_vars == <<rects, add_ret>>
list_vars == <<list_src, list_rects, dst, list_rot, list_method>>
compare_vars == <<cmp_args, cmp_ret>>
vars == <<bin_width, bin_height, used_rectangles, free_rectangles,
          overflow_checks, call, pc, opt, input, images, packer, ww, hh,
          packers, rects, add_ret, list_src, list_rects, dst, list_rot,
          list_method, cmp_args, cmp_ret>>

\* No insert_list call has been made.
ListIdle ==
    /\ list_src = <<>>
    /\ list_rects = <<>>
    /\ dst = <<>>
    /\ list_rot = FALSE
    /\ list_method = "RectBestShortSideFit"

\* No comparator has been called.
CompareIdle ==
    /\ cmp_args = <<>>
    /\ cmp_ret = [fn |-> "none", ordering |-> "none"]

(***************************************************************************)
(* rect.rs                                                                 *)
(***************************************************************************)
Rect(x, y, width, height) ==
    [x |-> x, y |-> y, width |-> width, height |-> height]

\* Rect::default()
RectDefault == Rect(0, 0, 0, 0)

\* The element of a one-element set.  { F(v) : v \in {e} } binds v to the
\* value of e, so e is evaluated once however often F mentions v.
The(S) == CHOOSE r \in S : TRUE

Min(a, b) == IF a < b THEN a ELSE b
Max(a, b) == IF a > b THEN a ELSE b
Abs(a) == IF a < 0 THEN -a ELSE a

\* i32::cmp: the std::cmp::Ordering of two integers
cmp(m, n) == IF m < n THEN "Less" ELSE IF m = n THEN "Equal" ELSE "Greater"

\* Mutant of compare_rect_short_side: the tie-break on the larger side is
\* missing.
compare_rect_short_side_no_tie_break(a, b) ==
    cmp(Min(a.width, a.height), Min(b.width, b.height))

\* Rect::compare_rect_short_side(&self, b), self written a
compare_rect_short_side(a, b) ==
    LET smaller_side_a == Min(a.width, a.height)
        smaller_side_b == Min(b.width, b.height)
        larger_side_a == Max(a.width, a.height)
        larger_side_b == Max(b.width, b.height)
    IN IF smaller_side_a # smaller_side_b
       THEN cmp(smaller_side_a, smaller_side_b)
       ELSE cmp(larger_side_a, larger_side_b)

\* Rect::node_sort_cmp(a, b)
node_sort_cmp(a, b) ==
    IF a.x # b.x THEN cmp(a.x, b.x)
    ELSE IF a.y # b.y THEN cmp(a.y, b.y)
    ELSE IF a.width # b.width THEN cmp(a.width, b.width)
    ELSE cmp(a.height, b.height)

is_contained_in(a, b) ==
    /\ a.x >= b.x
    /\ a.y >= b.y
    /\ a.x + a.width <= b.x + b.width
    /\ a.y + a.height <= b.y + b.height

\* the free function disjoint(a, b) of rect.rs
disjoint(a, b) ==
    \/ a.x + a.width <= b.x
    \/ b.x + b.width <= a.x
    \/ a.y + a.height <= b.y
    \/ b.y + b.height <= a.y

\* Vec::remove(i) with a 0-based index
RemoveAt(s, i) ==
    [k \in 1..(Len(s) - 1) |-> IF k <= i THEN s[k] ELSE s[k + 1]]

(***************************************************************************)
(* max_rects.rs: scoring                                                   *)
(***************************************************************************)
common_interval_length(i1start, i1end, i2start, i2end) ==
    IF i1end < i2start \/ i2end < i1start
    THEN 0
    ELSE Min(i1end, i2end) - Max(i1start, i2start)

RECURSIVE ContactUsedSum(_, _, _, _, _, _)
ContactUsedSum(used, k, x, y, width, height) ==
    IF k > Len(used) THEN 0
    ELSE LET rect == used[k]
             a == IF rect.x = x + width \/ rect.x + rect.width = x
                  THEN common_interval_length(rect.y, rect.y + rect.height,
                                              y, y + height)
                  ELSE 0
             b == IF rect.y = y + height \/ rect.y + rect.height = y
                  THEN common_interval_length(rect.x, rect.x + rect.width,
                                              x, x + width)
                  ELSE 0
         IN a + b + ContactUsedSum(used, k + 1, x, y, width, height)

contact_point_score_node(used, bw, bh, x, y, width, height) ==
    (IF x = 0 \/ x + width = bw THEN height ELSE 0)
    + (IF y = 0 \/ y + height = bh THEN width ELSE 0)
    + ContactUsedSum(used, 1, x, y, width, height)

\* Mutant of BottomLeftTry: the tie-break on x is missing.
BottomLeftTryNoTieBreak(acc, rect, w, h) ==
    IF rect.width >= w /\ rect.height >= h
    THEN LET top_side_y == rect.y + h
         IN IF top_side_y < acc.score1
            THEN [node |-> Rect(rect.x, rect.y, w, h),
                  score1 |-> top_side_y, score2 |-> rect.x]
            ELSE acc
    ELSE acc

\* One orientation trial of the bottom-left loop body.
BottomLeftTry(acc, rect, w, h) ==
    IF rect.width >= w /\ rect.height >= h
    THEN LET top_side_y == rect.y + h
         IN IF top_side_y < acc.score1
               \/ (top_side_y = acc.score1 /\ rect.x < acc.score2)
            THEN [node |-> Rect(rect.x, rect.y, w, h),
                  score1 |-> top_side_y, score2 |-> rect.x]
            ELSE acc
    ELSE acc

\* One orientation trial of the best-short-side-fit loop body.  score1 is
\* best_short_side_fit, score2 is best_long_side_fit, which the code
\* assigns to itself.
ShortSideTry(acc, rect, w, h) ==
    IF rect.width >= w /\ rect.height >= h
    THEN LET leftover_horiz == Abs(rect.width - w)
             leftover_vert == Abs(rect.height - h)
             short_side_fit == Min(leftover_horiz, leftover_vert)
             long_side_fit == Max(leftover_horiz, leftover_vert)
         IN IF short_side_fit < acc.score1
               \/ (short_side_fit = acc.score1 /\ long_side_fit < acc.score2)
            THEN [node |-> Rect(rect.x, rect.y, w, h),
                  score1 |-> short_side_fit, score2 |-> acc.score2]
            ELSE acc
    ELSE acc

\* One orientation trial of the best-long-side-fit loop body.  score1 is
\* best_long_side_fit (assigned to itself), score2 is best_short_side_fit.
LongSideTry(acc, rect, w, h) ==
    IF rect.width >= w /\ rect.height >= h
    THEN LET leftover_horiz == Abs(rect.width - w)
             leftover_vert == Abs(rect.height - h)
             short_side_fit == Min(leftover_horiz, leftover_vert)
             long_side_fit == Max(leftover_horiz, leftover_vert)
         IN IF long_side_fit < acc.score1
               \/ (long_side_fit = acc.score1 /\ short_side_fit < acc.score2)
            THEN [node |-> Rect(rect.x, rect.y, w, h),
                  score1 |-> acc.score1, score2 |-> short_side_fit]
            ELSE acc
    ELSE acc

\* Mutant of AreaTry: a candidate that ties fully replaces the best one.
AreaTryLastWins(acc, rect, w, h, area_fit) ==
    IF rect.width >= w /\ rect.height >= h
    THEN LET leftover_horiz == Abs(rect.width - w)
             leftover_vert == Abs(rect.height - h)
             short_side_fit == Min(leftover_horiz, leftover_vert)
         IN IF area_fit < acc.score1
               \/ (area_fit = acc.score1 /\ short_side_fit <= acc.score2)
            THEN [node |-> Rect(rect.x, rect.y, w, h),
                  score1 |-> area_fit, score2 |-> short_side_fit]
            ELSE acc
    ELSE acc

\* One orientation trial of the best-area-fit loop body; area_fit is
\* computed once per free rectangle from the unrotated item size.
AreaTry(acc, rect, w, h, area_fit) ==
    IF rect.width >= w /\ rect.height >= h
    THEN LET leftover_horiz == Abs(rect.width - w)
             leftover_vert == Abs(rect.height - h)
             short_side_fit == Min(leftover_horiz, leftover_vert)
         IN IF area_fit < acc.score1
               \/ (area_fit = acc.score1 /\ short_side_fit < acc.score2)
            THEN [node |-> Rect(rect.x, rect.y, w, h),
                  score1 |-> area_fit, score2 |-> short_side_fit]
            ELSE acc
    ELSE acc

\* One orientation trial of the contact-point loop body: the score is
\* computed from the free rectangle's own extent (rect.width, rect.height
\* upright; rect.height, rect.width rotated), as the code passes it.
ContactTry(acc, rect, w, h, sw, sh, used, bw, bh) ==
    IF rect.width >= w /\ rect.height >= h
    THEN The({ IF score > acc.score1
               THEN [node |-> Rect(rect.x, rect.y, w, h),
                     score1 |-> score, score2 |-> 0]
               ELSE acc :
               score \in { contact_point_score_node(used, bw, bh,
                                rect.x, rect.y, sw, sh) } })
    ELSE acc

\* The body of `for rect in &self.free_rectangles` of one heuristic:
\* upright trial, then the rotated trial when rot is set.
LoopBody(method, acc, rect, rot, width, height, used, bw, bh) ==
    CASE method = "RectBottomLeftRule" ->
           The({ IF rot THEN BottomLeftTry(a1, rect, height, width) ELSE a1 :
                 a1 \in { BottomLeftTry(acc, rect, width, height) } })
      [] method = "RectBestShortSideFit" ->
           The({ IF rot THEN ShortSideTry(a1, rect, height, width) ELSE a1 :
                 a1 \in { ShortSideTry(acc, rect, width, height) } })
      [] method = "RectBestLongSideFit" ->
           The({ IF rot THEN LongSideTry(a1, rect, height, width) ELSE a1 :
                 a1 \in { LongSideTry(acc, rect, width, height) } })
      [] method = "RectBestAreaFit" ->
           LET area_fit == rect.width * rect.height - width * height
           IN The({ IF rot
                    THEN AreaTry(a1, rect, height, width, area_fit)
                    ELSE a1 :
                    a1 \in { AreaTry(acc, rect, width, height, area_fit) } })
      [] method = "RectContactPointRule" ->
           The({ IF rot
                 THEN ContactTry(a1, rect, height, width,
                                 rect.height, rect.width, used, bw, bh)
                 ELSE a1 :
                 a1 \in { ContactTry(acc, rect, width, height,
                                     rect.width, rect.height,
                                     used, bw, bh) } })

RECURSIVE ScanFree(_, _, _, _, _, _, _, _, _, _)
ScanFree(method, free, k, acc, rot, width, height, used, bw, bh) ==
    IF k > Len(free) THEN acc
    ELSE The({ ScanFree(method, free, k + 1, next, rot, width, height,
                        used, bw, bh) :
               next \in { LoopBody(method, acc, free[k], rot, width, height,
                                   used, bw, bh) } })

find_position_for_new_node_bottom_left(free, rot, width, height) ==
    ScanFree("RectBottomLeftRule", free, 1,
             [node |-> RectDefault, score1 |-> I32Max, score2 |-> I32Max],
             rot, width, height, <<>>, 0, 0)

find_position_for_new_node_best_short_side_fit(free, rot, width, height) ==
    ScanFree("RectBestShortSideFit", free, 1,
             [node |-> RectDefault, score1 |-> I32Max, score2 |-> I32Max],
             rot, width, height, <<>>, 0, 0)

\* returns (best_node, best_long_side_fit, best_short_side_fit)
find_position_for_new_node_best_long_side_fit(free, rot, width, height) ==
    ScanFree("RectBestLongSideFit", free, 1,
             [node |-> RectDefault, score1 |-> I32Max, score2 |-> I32Max],
             rot, width, height, <<>>, 0, 0)

find_position_for_new_node_best_area_fit(free, rot, width, height) ==
    ScanFree("RectBestAreaFit", free, 1,
             [node |-> RectDefault, score1 |-> I32Max, score2 |-> I32Max],
             rot, width, height, <<>>, 0, 0)

\* returns (best_node, best_contact_score); score2 is unused
find_position_for_new_node_contact_point(free, used, bw, bh, rot, width, height) ==
    ScanFree("RectContactPointRule", free, 1,
             [node |-> RectDefault, score1 |-> -1, score2 |-> 0],
             rot, width, height, used, bw, bh)

\* Mutant of FindNode: every heuristic also tries the rotated orientation,
\* whatever rot says.
FindNodeAlwaysRotates(free, used, bw, bh, width, height, rot, method) ==
    CASE method = "RectBestShortSideFit" ->
           find_position_for_new_node_best_short_side_fit(
               free, TRUE, width, height).node
      [] method = "RectBottomLeftRule" ->
           find_position_for_new_node_bottom_left(
               free, TRUE, width, height).node
      [] method = "RectContactPointRule" ->
           find_position_for_new_node_contact_point(
               free, used, bw, bh, TRUE, width, height).node
      [] method = "RectBestLongSideFit" ->
           find_position_for_new_node_best_long_side_fit(
               free, TRUE, width, height).node
      [] method = "RectBestAreaFit" ->
           find_position_for_new_node_best_area_fit(
               free, TRUE, width, height).node

\* The `match method` of insert: the node the chosen heuristic proposes.
FindNode(free, used, bw, bh, width, height, rot, method) ==
    CASE method = "RectBestShortSideFit" ->
           find_position_for_new_node_best_short_side_fit(
               free, rot, width, height).node
      [] method = "RectBottomLeftRule" ->
           find_position_for_new_node_bottom_left(
               free, rot, width, height).node
      [] method = "RectContactPointRule" ->
           find_position_for_new_node_contact_point(
               free, used, bw, bh, rot, width, height).node
      [] method = "RectBestLongSideFit" ->
           find_position_for_new_node_best_long_side_fit(
               free, rot, width, height).node
      [] method = "RectBestAreaFit" ->
           find_position_for_new_node_best_area_fit(
               free, rot, width, height).node

\* score_rect: the node the heuristic proposes with its two scores
\* (score1, score2); contact point reports the negated contact score, a
\* rectangle that does not fit (i32::MAX, i32::MAX).
score_rect(free, used, bw, bh, width, height, rot, method) ==
    The({ IF found.node.height = 0
          THEN [node |-> found.node, score1 |-> I32Max, score2 |-> I32Max]
          ELSE found :
          found \in {
            CASE method = "RectBestShortSideFit" ->
                   find_position_for_new_node_best_short_side_fit(
                       free, rot, width, height)
              [] method = "RectBottomLeftRule" ->
                   find_position_for_new_node_bottom_left(
                       free, rot, width, height)
              [] method = "RectContactPointRule" ->
                   The({ [node |-> cp.node, score1 |-> 0 - cp.score1,
                          score2 |-> I32Max] :
                         cp \in { find_position_for_new_node_contact_point(
                                      free, used, bw, bh, rot, width,
                                      height) } })
              [] method = "RectBestLongSideFit" ->
                   find_position_for_new_node_best_long_side_fit(
                       free, rot, width, height)
              [] method = "RectBestAreaFit" ->
                   find_position_for_new_node_best_area_fit(
                       free, rot, width, height) } })

(***************************************************************************)
(* max_rects.rs: free-list maintenance                                     *)
(***************************************************************************)
\* Mutant of SplitHits: only the free rectangle the node was placed at the
\* origin of counts as hit.
SplitHitsSameOrigin(free_node, used_node) ==
    used_node.x = free_node.x /\ used_node.y = free_node.y

\* The intersection test at the head of split_free_node: TRUE when the
\* function returns true (the free node is split and later removed).
SplitHits(free_node, used_node) ==
    ~ (\/ used_node.x >= free_node.x + free_node.width
       \/ used_node.x + used_node.width <= free_node.x
       \/ used_node.y >= free_node.y + free_node.height
       \/ used_node.y + used_node.height <= free_node.y)

\* Mutant of split_free_node: the bottom and right pieces start at the used
\* node's near edge instead of its far edge.
split_free_node_near_edge(free_node, used_node) ==
    IF ~ SplitHits(free_node, used_node) THEN <<>>
    ELSE
      LET bottom == IF used_node.y + used_node.height
                         < free_node.y + free_node.height
                    THEN << [free_node EXCEPT
                               !.y = used_node.y,
                               !.height = free_node.y + free_node.height
                                   - used_node.y] >>
                    ELSE <<>>
          right == IF used_node.x + used_node.width
                        < free_node.x + free_node.width
                   THEN << [free_node EXCEPT
                              !.x = used_node.x,
                              !.width = free_node.x + free_node.width
                                  - used_node.x] >>
                   ELSE <<>>
      IN bottom \o right

\* The rectangles split_free_node pushes onto free_rectangles, in push
\* order: top, bottom, left, right.
split_free_node(free_node, used_node) ==
    IF ~ SplitHits(free_node, used_node) THEN <<>>
    ELSE
      LET xOverlap == /\ used_node.x < free_node.x + free_node.width
                      /\ used_node.x + used_node.width > free_node.x
          yOverlap == /\ used_node.y < free_node.y + free_node.height
                      /\ used_node.y + used_node.height > free_node.y
          top == IF /\ xOverlap
                    /\ used_node.y > free_node.y
                    /\ used_node.y < free_node.y + free_node.height
                 THEN << [free_node EXCEPT
                            !.height = used_node.y - free_node.y] >>
                 ELSE <<>>
          bottom == IF /\ xOverlap
                       /\ used_node.y + used_node.height
                            < free_node.y + free_node.height
                    THEN << [free_node EXCEPT
                               !.y = used_node.y + used_node.height,
                               !.height = free_node.y + free_node.height
                                   - (used_node.y + used_node.height)] >>
                    ELSE <<>>
          left == IF /\ yOverlap
                     /\ used_node.x > free_node.x
                     /\ used_node.x < free_node.x + free_node.width
                  THEN << [free_node EXCEPT
                             !.width = used_node.x - free_node.x] >>
                  ELSE <<>>
          right == IF /\ yOverlap
                      /\ used_node.x + used_node.width
                           < free_node.x + free_node.width
                   THEN << [free_node EXCEPT
                              !.x = used_node.x + used_node.width,
                              !.width = free_node.x + free_node.width
                                  - (used_node.x + used_node.width)] >>
                   ELSE <<>>
      IN top \o bottom \o left \o right

\* Mutant of SplitLoop: the split free rectangle is not removed.
RECURSIVE SplitLoopKeepsSplit(_, _, _, _)
SplitLoopKeepsSplit(free, i, n, node) ==
    IF i >= n THEN free
    ELSE LET r == free[i + 1]
         IN IF SplitHits(r, node)
            THEN The({ SplitLoopKeepsSplit(next, i + 1, n, node) :
                       next \in { free \o split_free_node(r, node) } })
            ELSE SplitLoopKeepsSplit(free, i + 1, n, node)

\* The while loop of place_rect: i is the 0-based index, n is
\* num_rectangles_to_process; pieces are pushed at the end of the list.
RECURSIVE SplitLoop(_, _, _, _)
SplitLoop(free, i, n, node) ==
    IF i >= n THEN free
    ELSE LET r == free[i + 1]
         IN IF SplitHits(r, node)
            THEN The({ SplitLoop(next, i, n - 1, node) :
                       next \in { RemoveAt(free \o split_free_node(r, node),
                                           i) } })
            ELSE SplitLoop(free, i + 1, n, node)

\* Mutant of PruneLoop: only `a.is_contained_in(b)` is tested, a later
\* rectangle contained in an earlier one stays.
RECURSIVE PruneLoopOneWay(_, _, _, _)
PruneLoopOneWay(free, i, j, checks) ==
    IF i >= Len(free) THEN [free |-> free, aborted |-> FALSE]
    ELSE IF j >= Len(free) THEN PruneLoopOneWay(free, i + 1, i + 2, checks)
    ELSE IF is_contained_in(free[i + 1], free[j + 1])
         THEN IF i = 0 /\ checks
              THEN [free |-> RemoveAt(free, i), aborted |-> TRUE]
              ELSE The({ PruneLoopOneWay(next, i, i + 1, checks) :
                         next \in { RemoveAt(free, i) } })
         ELSE PruneLoopOneWay(free, i, j + 1, checks)

\* prune_free_list with 0-based indices i and j.  `i -= 1` on a usize that
\* is 0 panics when the build checks overflow; otherwise it wraps and the
\* following `i += 1` brings it back to 0.
RECURSIVE PruneLoop(_, _, _, _)
PruneLoop(free, i, j, checks) ==
    IF i >= Len(free) THEN [free |-> free, aborted |-> FALSE]
    ELSE IF j >= Len(free) THEN PruneLoop(free, i + 1, i + 2, checks)
    ELSE LET a == free[i + 1]
             b == free[j + 1]
         IN IF is_contained_in(a, b)
            THEN IF i = 0
                 THEN IF checks
                      THEN [free |-> RemoveAt(free, i), aborted |-> TRUE]
                      ELSE The({ PruneLoop(next, 0, 1, checks) :
                                 next \in { RemoveAt(free, i) } })
                 ELSE The({ PruneLoop(next, i, i + 1, checks) :
                            next \in { RemoveAt(free, i) } })
            ELSE IF is_contained_in(b, a)
                 THEN The({ PruneLoop(next, i, j, checks) :
                            next \in { RemoveAt(free, j) } })
                 ELSE PruneLoop(free, i, j + 1, checks)

prune_free_list(free, checks) ==
    The({ PruneLoop(list, 0, 1, checks) : list \in {free} })

\* Mutant of place_rect: the node is put at the front of used_rectangles.
place_rect_front(free, used, node, checks) ==
    The({ [free |-> pruned.free,
           used |-> IF pruned.aborted THEN used ELSE <<node>> \o used,
           aborted |-> pruned.aborted] :
          pruned \in { prune_free_list(
                           SplitLoop(free, 0, Len(free), node), checks) } })

\* place_rect: split every intersecting free rectangle, prune, then push
\* the node onto used_rectangles (not reached when the prune panics).
place_rect(free, used, node, checks) ==
    The({ [free |-> pruned.free,
           used |-> IF pruned.aborted THEN used ELSE Append(used, node),
           aborted |-> pruned.aborted] :
          pruned \in { prune_free_list(
                           SplitLoop(free, 0, Len(free), node), checks) } })

\* insert: outcome "sentinel" (null Rect returned, nothing touched),
\* "placed" (node committed and returned) or "abort" (panic in the prune).
insert(free, used, bw, bh, width, height, rot, method, checks) ==
    The({ IF new_node.height = 0
          THEN [free |-> free, used |-> used, ret |-> new_node,
                outcome |-> "sentinel"]
          ELSE The({ [free |-> p.free, used |-> p.used, ret |-> new_node,
                      outcome |-> IF p.aborted THEN "abort" ELSE "placed"] :
                     p \in { place_rect(free, used, new_node, checks) } }) :
          new_node \in { FindNode(free, used, bw, bh, width, height, rot,
                                  method) } })

\* occupancy's numerator: the summed area of the used rectangles
RECURSIVE SurfaceAreaFrom(_, _)
SurfaceAreaFrom(used, k) ==
    IF k > Len(used) THEN 0
    ELSE used[k].width * used[k].height + SurfaceAreaFrom(used, k + 1)

used_surface_area(used) == SurfaceAreaFrom(used, 1)

(***************************************************************************)
(* image_wrapper.rs, packer.rs: the data the Packer works on               *)
(***************************************************************************)
\* The fingerprints ImageWrapper::new can store in hash_value.  The code
\* computes a 64-bit MetroHash of width, height and the data bytes; the
\* program reads a hash_value only as a key of dup_lookup, that is to
\* compare it with another one, so the values are numbers that stand for
\* distinct u64 values.
HashValues == 0..(MaxImages - 1)

\* An ImageWrapper as pack reads it: dimensions, pixel data (an abstract
\* content id) and the fingerprint.
ImageWrapper(width, height, data, hash_value) ==
    [width |-> width, height |-> height, data |-> data, hash_value |-> hash_value]

\* impl PartialEq for ImageWrapper
ImageEq(a, b) ==
    IF a.width = b.width /\ a.height = b.height
    THEN a.data = b.data
    ELSE FALSE

\* The dimensions and content <<width, height, data>> of the images a
\* session may be given.
ImageContents ==
    { <<1, 1, 0>>, <<1, 2, 0>>, <<2, 1, 0>>, <<1, 2, 1>>, <<2, 2, 0>>, <<3, 1, 0>> }

\* The images a session may be given, with every fingerprint the hash may
\* have given them.
ImagePool ==
    { ImageWrapper(c[1], c[2], c[3], hv) : c \in ImageContents, hv \in HashValues }

\* The fingerprints of a queue are the outcome of one hash function: images
\* of equal width, height and data have the same hash_value; images that
\* differ may have different ones or collide.  The values are numbered in
\* the order of their first appearance in the queue.
Fingerprinted(q) ==
    /\ \A i, j \in 1..Len(q) :
         (/\ q[i].width = q[j].width
          /\ q[i].height = q[j].height
          /\ q[i].data = q[j].data) => q[i].hash_value = q[j].hash_value
    /\ \A i \in 1..Len(q) :
         q[i].hash_value <= Cardinality({ q[j].hash_value : j \in 1..(i - 1) })

\* main sorts the queue ascending by width * height before packing
SortedByArea(q) ==
    \A i \in 1..(Len(q) - 1) :
        q[i].width * q[i].height <= q[i + 1].width * q[i + 1].height

Queues ==
    { q \in UNION { [1..n -> ImagePool] : n \in 0..MaxImages } :
        SortedByArea(q) /\ Fingerprinted(q) }

Point(x, y, dup_id, rot) == [x |-> x, y |-> y, dup_id |-> dup_id, rot |-> rot]

\* Packer::new(width, height, pad)
PackerNew(width, height, pad) ==
    [width |-> width, height |-> height, pad |-> pad,
     images |-> <<>>, points |-> <<>>, dup_lookup |-> <<>>]

\* MetroHashMap::insert(key, value)
MapInsert(m, key, value) ==
    [k \in DOMAIN m \cup {key} |-> IF k = key THEN value ELSE m[k]]

NoOpt == [size |-> 0, pad |-> 0, unique |-> FALSE, rotate |-> FALSE,
          heuristic |-> "none"]

(***************************************************************************)
(* Engine specification: one MaxRectsBinPack and arbitrary insert calls.   *)
(***************************************************************************)
NoCall == [ret |-> RectDefault, outcome |-> "none"]

\* MaxRectsBinPack::new(width, height)
Init ==
    /\ bin_width \in 1..MaxBin
    /\ bin_height \in 1..MaxBin
    /\ used_rectangles = <<>>
    /\ free_rectangles = << Rect(0, 0, bin_width, bin_height) >>
    /\ overflow_checks \in BOOLEAN
    /\ call = NoCall
    /\ pc = "api"
    /\ opt = NoOpt
    /\ input = <<>>
    /\ images = <<>>
    /\ packer = PackerNew(0, 0, 0)
    /\ ww = 0
    /\ hh = 0
    /\ packers = <<>>
    /\ rects = <<>>
    /\ add_ret = "none"
    /\ ListIdle
    /\ CompareIdle

\* MaxRectsBinPack::insert(width, height, rot, method)
Insert(width, height, rot, method) ==
    /\ pc = "api"
    /\ call.outcome # "abort"
    /\ Len(used_rectangles) < MaxUsed
    /\ \E r \in { insert(free_rectangles, used_rectangles, bin_width,
                         bin_height, width, height, rot, method,
                         overflow_checks) } :
          /\ free_rectangles' = r.free
          /\ used_rectangles' = r.used
          /\ call' = [ret |-> r.ret, outcome |-> r.outcome]
    /\ UNCHANGED <<bin_width, bin_height, overflow_checks>>
    /\ UNCHANGED session_vars
    /\ UNCHANGED collection_vars
    /\ UNCHANGED compare_vars
    /\ UNCHANGED list_vars

Next ==
    \E width \in 1..MaxDim, height \in 1..MaxDim, rot \in BOOLEAN,
       method \in FreeRectChoiceHeuristic :
        Insert(width, height, rot, method)

Spec == Init /\ [][Next]_vars

(***************************************************************************)
(* Session specification: main's packing loop and Packer::pack, one step   *)
(* per loop iteration.                                                     *)
(***************************************************************************)
InitSession ==
    /\ pc = "main"
    /\ opt \in [size : {PackSize}, pad : {0, 1}, unique : BOOLEAN,
                rotate : BOOLEAN, heuristic : FreeRectChoiceHeuristic]
    /\ input \in Queues
    /\ images = input
    /\ overflow_checks \in BOOLEAN
    /\ packer = PackerNew(0, 0, 0)
    /\ packers = <<>>
    /\ ww = 0
    /\ hh = 0
    /\ bin_width = 0
    /\ bin_height = 0
    /\ used_rectangles = <<>>
    /\ free_rectangles = <<>>
    /\ call = NoCall
    /\ rects = <<>>
    /\ add_ret = "none"
    /\ ListIdle
    /\ CompareIdle

\* main: the head of `while !images.is_empty()`; a non-empty queue
\* constructs a fresh Packer and enters pack (MaxRectsBinPack::new,
\* ww = hh = 0), an empty one leaves the loop.
MainLoop ==
    /\ pc = "main"
    /\ IF images = <<>>
       THEN /\ pc' = "done"
            /\ UNCHANGED <<packer, ww, hh, bin_width, bin_height,
                           used_rectangles, free_rectangles, call>>
       ELSE /\ pc' = "pack"
            /\ packer' = PackerNew(opt.size, opt.size, opt.pad)
            /\ bin_width' = opt.size
            /\ bin_height' = opt.size
            /\ used_rectangles' = <<>>
            /\ free_rectangles' = << Rect(0, 0, opt.size, opt.size) >>
            /\ call' = NoCall
            /\ ww' = 0
            /\ hh' = 0
    /\ UNCHANGED <<opt, input, images, packers, overflow_checks>>
    /\ UNCHANGED collection_vars
    /\ UNCHANGED compare_vars
    /\ UNCHANGED list_vars

\* Mutant of PopIndex: images are taken from the front of the Vec.
PopIndexFront(queue) == 1

\* `images.pop()`: the position (1-based) of the element Vec::pop takes
PopIndex(queue) == Len(queue)

\* `images.pop().unwrap()`: the image pack takes next
PopImage(queue) == queue[PopIndex(queue)]

\* `images.pop()`: the queue it leaves behind
PopRest(queue) == RemoveAt(queue, PopIndex(queue) - 1)

\* Mutant of Rejected: no returned rectangle counts as a rejection.
RejectedNever(rect) == FALSE

\* `if rect.width == 0 || rect.height == 0`: insert returned the sentinel
Rejected(rect) == rect.width = 0 \/ rect.height = 0

\* Mutant of PushBack: the rejected image goes to the other end.
PushBackFront(queue, image) == <<image>> \o queue

\* Mutant of PushBack: the rejected image is dropped.
PushBackDropped(queue, image) == queue

\* `images.push(image)`: the rejected image goes back where it was popped
PushBack(queue, image) == Append(queue, image)

\* Mutant of NewPoint: the padding is not taken off the placed width.
NewPointIgnoresPad(rect, image, pad, rotate) ==
    Point(rect.x, rect.y, -1, rotate /\ image.width # rect.width)

\* The Point pack records for a placement
NewPoint(rect, image, pad, rotate) ==
    Point(rect.x, rect.y, -1, rotate /\ image.width # rect.width - pad)

\* The Point pack records for a duplicate of the image at index idx
AliasPoint(points, idx) == [points[idx + 1] EXCEPT !.dup_id = idx]

\* `self.dup_lookup.insert(image.hash_value, self.points.len())`
RecordLookup(pk, image, unique) ==
    IF unique
    THEN MapInsert(pk.dup_lookup, image.hash_value, Len(pk.points))
    ELSE pk.dup_lookup

\* Mutant of ShrinkTest: the half must exceed the bound.
ShrinkTestStrict(size, bound) == size \div 2 > bound

\* Mutant of ShrinkTest: the size itself, not its half, is compared.
ShrinkTestWhole(size, bound) == size >= bound /\ size > 0

\* The loop test of both halving loops
ShrinkTest(size, bound) == size \div 2 >= bound

\* Mutant of DuplicateIndex: no image is ever found to be a duplicate.
DuplicateIndexNever(pk, image, unique) == -1

\* Mutant of DuplicateIndex: a fingerprint hit is taken for a duplicate
\* without comparing the content.
DuplicateIndexNoCompare(pk, image, unique) ==
    IF unique /\ image.hash_value \in DOMAIN pk.dup_lookup
    THEN pk.dup_lookup[image.hash_value]
    ELSE -1

\* The duplicate test of pack: the index the lookup table gives for the
\* image's fingerprint when the image there has equal content, else -1.
DuplicateIndex(pk, image, unique) ==
    IF unique /\ image.hash_value \in DOMAIN pk.dup_lookup
    THEN LET idx == pk.dup_lookup[image.hash_value]
         IN IF ImageEq(image, pk.images[idx + 1]) THEN idx ELSE -1
    ELSE -1

\* Packer::pack: one iteration of `while !images.is_empty()`.
PackLoop ==
    /\ pc = "pack"
    /\ IF images = <<>>
       THEN /\ pc' = "shrink_width"
            /\ UNCHANGED <<images, packer, ww, hh, used_rectangles,
                           free_rectangles, call>>
       ELSE
         LET image == PopImage(images)
             rest == PopRest(images)
             idx == DuplicateIndex(packer, image, opt.unique)
         IN IF idx >= 0
            THEN \* duplicate found: alias the earlier point, `continue`
                 /\ packer' = [packer EXCEPT
                       !.points = Append(@, AliasPoint(packer.points, idx)),
                       !.images = Append(@, image)]
                 /\ images' = rest
                 /\ pc' = "pack"
                 /\ UNCHANGED <<ww, hh, used_rectangles, free_rectangles,
                                call>>
            ELSE
              \E r \in { insert(free_rectangles, used_rectangles, bin_width,
                                bin_height, image.width + packer.pad,
                                image.height + packer.pad, opt.rotate,
                                opt.heuristic, overflow_checks) } :
              LET rect == r.ret
              IN /\ free_rectangles' = r.free
                 /\ used_rectangles' = r.used
                 /\ call' = [ret |-> r.ret, outcome |-> r.outcome]
                 /\ IF r.outcome = "abort"
                    THEN /\ pc' = "panic"
                         /\ images' = rest
                         /\ UNCHANGED <<packer, ww, hh>>
                    ELSE IF Rejected(rect)
                    THEN \* does not fit: push the image back and break
                         /\ images' = PushBack(rest, image)
                         /\ pc' = "shrink_width"
                         /\ UNCHANGED <<packer, ww, hh>>
                    ELSE /\ packer' = [packer EXCEPT
                               !.dup_lookup =
                                   RecordLookup(packer, image, opt.unique),
                               !.points = Append(@,
                                   NewPoint(rect, image, packer.pad,
                                            opt.rotate)),
                               !.images = Append(@, image)]
                         /\ images' = rest
                         /\ ww' = Max(rect.x + rect.width, ww)
                         /\ hh' = Max(rect.y + rect.height, hh)
                         /\ pc' = "pack"
    /\ UNCHANGED <<opt, input, packers, overflow_checks, bin_width,
                   bin_height>>
    /\ UNCHANGED collection_vars
    /\ UNCHANGED compare_vars
    /\ UNCHANGED list_vars

\* Packer::pack: one test of `while self.width / 2 >= ww`
ShrinkWidth ==
    /\ pc = "shrink_width"
    /\ IF ShrinkTest(packer.width, ww)
       THEN /\ packer' = [packer EXCEPT !.width = @ \div 2]
            /\ pc' = "shrink_width"
       ELSE /\ pc' = "shrink_height"
            /\ UNCHANGED packer
    /\ UNCHANGED <<opt, input, images, packers, ww, hh>>
    /\ UNCHANGED engine_vars
    /\ UNCHANGED collection_vars
    /\ UNCHANGED compare_vars
    /\ UNCHANGED list_vars

\* Packer::pack: one test of `while self.height / 2 >= hh`; leaving the
\* loop returns to main
ShrinkHeight ==
    /\ pc = "shrink_height"
    /\ IF ShrinkTest(packer.height, hh)
       THEN /\ packer' = [packer EXCEPT !.height = @ \div 2]
            /\ pc' = "shrink_height"
       ELSE /\ pc' = "returned"
            /\ UNCHANGED packer
    /\ UNCHANGED <<opt, input, images, packers, ww, hh>>
    /\ UNCHANGED engine_vars
    /\ UNCHANGED collection_vars
    /\ UNCHANGED compare_vars
    /\ UNCHANGED list_vars

\* main after pack returned: an empty Packer is the fatal CantFitError,
\* any other is recorded and the loop goes on
MainAfterPack ==
    /\ pc = "returned"
    /\ IF packer.images = <<>>
       THEN /\ pc' = "cant_fit"
            /\ UNCHANGED packers
       ELSE /\ packers' = Append(packers, packer)
            /\ pc' = "main"
    /\ UNCHANGED <<opt, input, images, packer, ww, hh>>
    /\ UNCHANGED engine_vars
    /\ UNCHANGED collection_vars
    /\ UNCHANGED compare_vars
    /\ UNCHANGED list_vars

NextSession ==
    \/ MainLoop
    \/ PackLoop
    \/ ShrinkWidth
    \/ ShrinkHeight
    \/ MainAfterPack

SpecSession == InitSession /\ [][NextSession]_vars

\* The program is sequential and always takes its next step.
FairSession == SpecSession /\ WF_vars(NextSession)

\* Both uses together: a MaxRectsBinPack called directly, or the session.
InitAll == Init \/ InitSession
NextAll == Next \/ NextSession
SpecAll == InitAll /\ [][NextAll]_vars

(***************************************************************************)
(* rect.rs: DisjointRectCollection, called directly.                       *)
(***************************************************************************)
\* Mutant of collection_disjoint: r is compared with the last member only.
collection_disjoint_last(rs, r) ==
    IF r.width = 0 \/ r.height = 0
    THEN TRUE
    ELSE Len(rs) = 0 \/ disjoint(rs[Len(rs)], r)

\* DisjointRectCollection::disjoint(r)
collection_disjoint(rs, r) ==
    IF r.width = 0 \/ r.height = 0
    THEN TRUE
    ELSE \A k \in 1..Len(rs) : disjoint(rs[k], r)

\* Mutant of add: the early return for degenerate rectangles is missing.
add_pushes_degenerate(rs, r) ==
    IF ~ collection_disjoint(rs, r)
    THEN [rects |-> rs, ret |-> FALSE]
    ELSE [rects |-> Append(rs, r), ret |-> TRUE]

\* DisjointRectCollection::add(r): the collection afterwards and the
\* returned bool
add(rs, r) ==
    IF r.width = 0 \/ r.height = 0
    THEN [rects |-> rs, ret |-> TRUE]
    ELSE IF ~ collection_disjoint(rs, r)
    THEN [rects |-> rs, ret |-> FALSE]
    ELSE [rects |-> Append(rs, r), ret |-> TRUE]

\* The rectangles handed to add: every rectangle, degenerate ones
\* included, of a square region of side MaxCoord + 1.
RectPool ==
    { r \in { Rect(x, y, width, height) :
                x \in 0..MaxCoord, y \in 0..MaxCoord,
                width \in 0..MaxDim, height \in 0..MaxDim } :
        /\ r.x + r.width <= MaxCoord + 1
        /\ r.y + r.height <= MaxCoord + 1 }

\* DisjointRectCollection::new()
InitCollection ==
    /\ pc = "collection"
    /\ rects = <<>>
    /\ add_ret = "none"
    /\ ListIdle
    /\ CompareIdle
    /\ bin_width = 0
    /\ bin_height = 0
    /\ used_rectangles = <<>>
    /\ free_rectangles = <<>>
    /\ overflow_checks \in BOOLEAN
    /\ call = NoCall
    /\ opt = NoOpt
    /\ input = <<>>
    /\ images = <<>>
    /\ packer = PackerNew(0, 0, 0)
    /\ ww = 0
    /\ hh = 0
    /\ packers = <<>>

\* DisjointRectCollection::add(r)
Add(r) ==
    /\ pc = "collection"
    /\ \E res \in { add(rects, r) } :
          /\ Len(res.rects) <= MaxRects
          /\ rects' = res.rects
          /\ add_ret' = IF res.ret THEN "true" ELSE "false"
    /\ UNCHANGED engine_vars
    /\ UNCHANGED session_vars
    /\ UNCHANGED list_vars
    /\ UNCHANGED compare_vars

\* DisjointRectCollection::clear()
Clear ==
    /\ pc = "collection"
    /\ rects' = <<>>
    /\ UNCHANGED add_ret
    /\ UNCHANGED engine_vars
    /\ UNCHANGED session_vars
    /\ UNCHANGED list_vars
    /\ UNCHANGED compare_vars

NextCollection ==
    \/ \E r \in RectPool : Add(r)
    \/ Clear

SpecCollection == InitCollection /\ [][NextCollection]_vars

(***************************************************************************)
(* Comparator specification: the two Rect comparators of rect.rs, called   *)
(* directly, once each run (they read nothing but their arguments).        *)
(***************************************************************************)
\* No comparator called yet; nothing else of the program is running.
InitCompare ==
    /\ pc = "compare"
    /\ CompareIdle
    /\ ListIdle
    /\ rects = <<>>
    /\ add_ret = "none"
    /\ bin_width = 0
    /\ bin_height = 0
    /\ used_rectangles = <<>>
    /\ free_rectangles = <<>>
    /\ overflow_checks \in BOOLEAN
    /\ call = NoCall
    /\ opt = NoOpt
    /\ input = <<>>
    /\ images = <<>>
    /\ packer = PackerNew(0, 0, 0)
    /\ ww = 0
    /\ hh = 0
    /\ packers = <<>>

\* a.compare_rect_short_side(&b)
CompareRectShortSide(a, b) ==
    /\ pc = "compare"
    /\ cmp_args' = <<a, b>>
    /\ cmp_ret' = [fn |-> "compare_rect_short_side", ordering |-> compare_rect_short_side(a, b)]
    /\ pc' = "compared"
    /\ UNCHANGED engine_vars
    /\ UNCHANGED <<opt, input, images, packer, ww, hh, packers>>
    /\ UNCHANGED list_vars
    /\ UNCHANGED <<rects, add_ret>>

\* Rect::node_sort_cmp(&a, &b)
NodeSortCmp(a, b) ==
    /\ pc = "compare"
    /\ cmp_args' = <<a, b>>
    /\ cmp_ret' = [fn |-> "node_sort_cmp", ordering |-> node_sort_cmp(a, b)]
    /\ pc' = "compared"
    /\ UNCHANGED engine_vars
    /\ UNCHANGED <<opt, input, images, packer, ww, hh, packers>>
    /\ UNCHANGED list_vars
    /\ UNCHANGED <<rects, add_ret>>

NextCompare ==
    \/ \E a \in RectPool, b \in RectPool : CompareRectShortSide(a, b)
    \/ \E a \in RectPool, b \in RectPool : NodeSortCmp(a, b)

SpecCompare == InitCompare /\ [][NextCompare]_vars

(***************************************************************************)
(* List specification: MaxRectsBinPack::insert_list on a fresh bin, one    *)
(* step per round of its while loop.                                       *)
(***************************************************************************)
\* Mutant of ScoreScan: a rect that ties on both scores replaces the best.
RECURSIVE ScoreScanLastWins(_, _, _, _, _, _, _, _, _)
ScoreScanLastWins(free, used, bw, bh, list, idx, best, rot, method) ==
    IF idx >= Len(list) THEN best
    ELSE The({ ScoreScanLastWins(free, used, bw, bh, list, idx + 1, next,
                                 rot, method) :
               next \in { IF \/ s.score1 < best.score1
                             \/ (s.score1 = best.score1
                                 /\ s.score2 <= best.score2
                                 /\ s.node.height # 0)
                          THEN [index |-> idx, node |-> s.node,
                                score1 |-> s.score1, score2 |-> s.score2]
                          ELSE best :
                          s \in { score_rect(free, used, bw, bh,
                                             list[idx + 1].width,
                                             list[idx + 1].height,
                                             rot, method) } } })

\* `for (idx, rect) in rects.iter().enumerate()`: the scan of one round;
\* idx is 0-based, best is (best_rect_index, best_node, best_score_1,
\* best_score_2).
RECURSIVE ScoreScan(_, _, _, _, _, _, _, _, _)
ScoreScan(free, used, bw, bh, list, idx, best, rot, method) ==
    IF idx >= Len(list) THEN best
    ELSE The({ ScoreScan(free, used, bw, bh, list, idx + 1, next,
                         rot, method) :
               next \in { IF \/ s.score1 < best.score1
                             \/ (s.score1 = best.score1
                                 /\ s.score2 < best.score2)
                          THEN [index |-> idx, node |-> s.node,
                                score1 |-> s.score1, score2 |-> s.score2]
                          ELSE best :
                          s \in { score_rect(free, used, bw, bh,
                                             list[idx + 1].width,
                                             list[idx + 1].height,
                                             rot, method) } } })

\* The locals a round starts from: nothing chosen, both scores i32::MAX.
NoBest == [index |-> -1, node |-> RectDefault, score1 |-> I32Max, score2 |-> I32Max]

\* Mutant of RemoveCommitted: the first remaining rect is removed.
RemoveCommittedFirst(list, index) == RemoveAt(list, 0)

\* `rects.remove(best_rect_index.try_into().unwrap())`
RemoveCommitted(list, index) == RemoveAt(list, index)

\* One round of insert_list's while loop on a non-empty list: outcome
\* "break" (nothing fits), "placed" (best_node committed, its rect removed)
\* or "abort" (panic in the prune of place_rect).
insert_list_round(free, used, bw, bh, list, rot, method, checks) ==
    The({ IF best.index = -1
          THEN [free |-> free, used |-> used, rects |-> list,
                node |-> best.node, index |-> -1, outcome |-> "break"]
          ELSE The({ [free |-> p.free, used |-> p.used,
                      rects |-> IF p.aborted THEN list
                                ELSE RemoveCommitted(list, best.index),
                      node |-> best.node, index |-> best.index,
                      outcome |-> IF p.aborted THEN "abort" ELSE "placed"] :
                     p \in { place_rect(free, used, best.node, checks) } }) :
          best \in { ScoreScan(free, used, bw, bh, list, 0, NoBest,
                               rot, method) } })

\* The while loop of insert_list, run to its end.
RECURSIVE InsertListLoop(_, _, _, _, _, _, _, _, _)
InsertListLoop(free, used, bw, bh, list, out, rot, method, checks) ==
    IF Len(list) = 0
    THEN [free |-> free, used |-> used, dst |-> out, outcome |-> "returned"]
    ELSE The({ IF r.outcome = "break"
               THEN [free |-> free, used |-> used, dst |-> out,
                     outcome |-> "returned"]
               ELSE IF r.outcome = "abort"
               THEN [free |-> r.free, used |-> r.used, dst |-> out,
                     outcome |-> "abort"]
               ELSE InsertListLoop(r.free, r.used, bw, bh, r.rects,
                                   Append(out, r.node), rot, method, checks) :
               r \in { insert_list_round(free, used, bw, bh, list, rot,
                                         method, checks) } })

\* insert_list(rects, rot, method): the Vec it returns and the bin it
\* leaves, or outcome "abort" when place_rect panicked.
insert_list(free, used, bw, bh, list, rot, method, checks) ==
    InsertListLoop(free, used, bw, bh, list, <<>>, rot, method, checks)

\* The lists insert_list is called with: 1 to MaxList rects whose sides
\* are the smallest and the largest item side (their x and y are not read).
ListPool == { Rect(0, 0, width, height) : width \in {1, MaxDim}, height \in {1, MaxDim} }
Lists == UNION { [1..n -> ListPool] : n \in 1..MaxList }

\* insert_list entered: `dst = vec![]`, `rects = Vec::from(rects)`
ListStart(list, rot, method) ==
    /\ pc = "api"
    /\ call.outcome # "abort"
    /\ pc' = "insert_list"
    /\ list_src' = list
    /\ list_rects' = list
    /\ dst' = <<>>
    /\ list_rot' = rot
    /\ list_method' = method
    /\ UNCHANGED engine_vars
    /\ UNCHANGED <<opt, input, images, packer, ww, hh, packers>>
    /\ UNCHANGED collection_vars
    /\ UNCHANGED compare_vars

\* insert_list: one test of `while rects.len() > 0` and the round it
\* guards; an empty list or a round that finds nothing returns dst.
ListRound ==
    /\ pc = "insert_list"
    /\ IF Len(list_rects) = 0
       THEN /\ pc' = "list_returned"
            /\ UNCHANGED <<free_rectangles, used_rectangles, call,
                           list_rects, dst>>
       ELSE \E r \in { insert_list_round(free_rectangles, used_rectangles,
                           bin_width, bin_height, list_rects, list_rot,
                           list_method, overflow_checks) } :
              /\ free_rectangles' = r.free
              /\ used_rectangles' = r.used
              /\ list_rects' = r.rects
              /\ IF r.outcome = "break"
                 THEN /\ pc' = "list_returned"
                      /\ UNCHANGED <<call, dst>>
                 ELSE /\ call' = [ret |-> r.node, outcome |-> r.outcome]
                      /\ IF r.outcome = "abort"
                         THEN pc' = "list_panic" /\ UNCHANGED dst
                         ELSE pc' = "insert_list"
                              /\ dst' = Append(dst, r.node)
    /\ UNCHANGED <<bin_width, bin_height, overflow_checks>>
    /\ UNCHANGED <<opt, input, images, packer, ww, hh, packers>>
    /\ UNCHANGED <<list_src, list_rot, list_method>>
    /\ UNCHANGED collection_vars
    /\ UNCHANGED compare_vars

\* MaxRectsBinPack::insert called on the fresh bin before insert_list, so
\* that insert_list also meets bins that are partly filled and hold several
\* free rectangles.
ListInsert(width, height, rot, method) ==
    /\ used_rectangles = <<>>
    /\ Insert(width, height, rot, method)

NextList ==
    \/ \E width \in 1..MaxDim, height \in 1..MaxDim, rot \in BOOLEAN, method \in FreeRectChoiceHeuristic : ListInsert(width, height, rot, method)
    \/ \E list \in Lists, rot \in BOOLEAN, method \in FreeRectChoiceHeuristic : ListStart(list, rot, method)
    \/ ListRound

\* MaxRectsBinPack::new(MaxBin, height): the bins insert_list is run on
\* are the widest ones, of every height.
InitList == Init /\ bin_width = MaxBin

SpecList == InitList /\ [][NextList]_vars

\* insert_list is sequential code: once called, its next round is always
\* taken.
FairList == SpecList /\ WF_vars(ListRound)

(***************************************************************************)
(* Definitions shared by the claims                                        *)
(***************************************************************************)
PairwiseDisjoint(rs) ==
    \A i, j \in 1..Len(rs) : i < j => disjoint(rs[i], rs[j])

\* The padded footprint of the i-th image of a Packer, in the orientation
\* its Point records.
Footprint(pk, i) ==
    IF pk.points[i].rot
    THEN Rect(pk.points[i].x, pk.points[i].y,
              pk.images[i].height + pk.pad, pk.images[i].width + pk.pad)
    ELSE Rect(pk.points[i].x, pk.points[i].y,
              pk.images[i].width + pk.pad, pk.images[i].height + pk.pad)

NonDuplicates(pk) == { i \in 1..Len(pk.points) : pk.points[i].dup_id < 0 }

RecordedPackers == { packers[b] : b \in 1..Len(packers) }

\* The Packers whose pack call has returned.
ReturnedPackers ==
    RecordedPackers \cup (IF pc = "returned" THEN {packer} ELSE {})

\* main holds a Packer in its local `packer`: from Packer::new until the
\* Packer is pushed onto packers, or until main returns the CantFitError
\* or the process panics.
LivePacker == pc \in {"pack", "shrink_width", "shrink_height", "returned", "cant_fit", "panic"}

\* Every Packer of the session, the one being packed included.
AllPackers == RecordedPackers \cup (IF LivePacker THEN {packer} ELSE {})

Reverse(q) == [k \in 1..Len(q) |-> q[Len(q) + 1 - k]]

\* The images retained by the first n recorded bins, as they stood in the
\* queue: the last bin's images lie below those of the bins before it.
RECURSIVE Consumed(_)
Consumed(n) ==
    IF n = 0 THEN <<>>
    ELSE Reverse(packers[n].images) \o Consumed(n - 1)

Count(q, x) == Cardinality({ k \in 1..Len(q) : q[k] = x })

Fits(free, width, height, rot) ==
    \E k \in 1..Len(free) :
        \/ free[k].width >= width /\ free[k].height >= height
        \/ rot /\ free[k].width >= height /\ free[k].height >= width

Calls == [width : 1..MaxDim, height : 1..MaxDim, rot : BOOLEAN,
          method : FreeRectChoiceHeuristic]

\* insert called with c on the MaxRectsBinPack as it stands
InsertNow(c) ==
    insert(free_rectangles, used_rectangles, bin_width, bin_height,
           c.width, c.height, c.rot, c.method, overflow_checks)

\* The MaxRectsBinPack is alive and can be called.
Callable == pc = "api" /\ call.outcome # "abort"

(***************************************************************************)
(* Claims                                                                  *)
(***************************************************************************)
\* C1: No-overlap.  After any sequence of inserts the used rectangles are
\* pairwise disjoint, and in every Packer the padded footprints of the
\* non-duplicate Points are pairwise disjoint.
C1_NoOverlap ==
    /\ PairwiseDisjoint(used_rectangles)
    /\ \A pk \in AllPackers :
         \A i, j \in NonDuplicates(pk) :
            i < j => disjoint(Footprint(pk, i), Footprint(pk, j))

\* A recorded bin holds three separately placed images.
C1_Witness ==
    \E pk \in RecordedPackers : Cardinality(NonDuplicates(pk)) >= 3

\* C2: Containment.  After pack returns every non-duplicate footprint lies
\* inside the Packer's final, shrunk width and height.
C2_Containment ==
    \A pk \in ReturnedPackers :
        \A i \in NonDuplicates(pk) :
            /\ Footprint(pk, i).x >= 0
            /\ Footprint(pk, i).y >= 0
            /\ Footprint(pk, i).x + Footprint(pk, i).width <= pk.width
            /\ Footprint(pk, i).y + Footprint(pk, i).height <= pk.height

\* pack returned a Packer it shrank, holding two separately placed images.
C2_Witness ==
    /\ pc = "returned"
    /\ packer.width < opt.size
    /\ Cardinality(NonDuplicates(packer)) >= 2

\* C3: insert returns the null sentinel (height = 0) exactly when no free
\* rectangle accommodates the item in an allowed orientation, and otherwise
\* returns a rectangle of positive height.
C3_SentinelIffNoFit ==
    Callable =>
      \A c \in Calls :
        \E r \in { InsertNow(c) } :
          IF Fits(free_rectangles, c.width, c.height, c.rot)
          THEN r.outcome = "placed" /\ r.ret.height > 0
          ELSE r.outcome = "sentinel" /\ r.ret.height = 0

\* C4: insert is atomic.  A call that returns the sentinel leaves the free
\* and used sets unchanged; a call that returns a placement appends exactly
\* that rectangle to the used set.
C4_InsertAtomic ==
    [][ pc = "api" =>
          /\ call'.outcome = "sentinel" =>
                /\ free_rectangles' = free_rectangles
                /\ used_rectangles' = used_rectangles
          /\ call'.outcome = "placed" =>
                used_rectangles' = Append(used_rectangles, call'.ret) ]_vars

\* insert returned the sentinel on a bin that already holds two rectangles.
C4_Witness ==
    /\ pc = "api"
    /\ call.outcome = "sentinel"
    /\ Len(used_rectangles) >= 2

\* C5: when a fresh Packer places no image while the queue is non-empty,
\* the driver reaches the fatal CantFitError outcome.
C5_EmptyBinIsFatal ==
    (pc = "shrink_width" /\ packer.images = <<>> /\ images # <<>>)
        ~> (pc = "cant_fit")

\* C6: if every image fits an empty bin, the session ends with the queue
\* empty, every input image retained in exactly one bin and no recorded bin
\* empty.  Stated on the states in which the session has stopped.
AllFit ==
    \A k \in 1..Len(input) :
        /\ input[k].width + opt.pad <= opt.size
        /\ input[k].height + opt.pad <= opt.size

C6_SessionCompletes ==
    (AllFit /\ pc \in {"done", "cant_fit", "panic"}) =>
        /\ pc = "done"
        /\ images = <<>>
        /\ \A im \in ImagePool :
              Count(input, im) = Count(Consumed(Len(packers)), im)
        /\ \A pk \in RecordedPackers : pk.images # <<>>

\* C7: duplicate aliasing.  With dedup enabled, of two images of equal
\* dimensions and content retained in one bin the later one has the
\* earlier one's (x, y, rot) and is marked a duplicate of the first such
\* image.
C7_DuplicateAliasing ==
    opt.unique =>
      \A pk \in ReturnedPackers :
        \A i, j \in 1..Len(pk.images) :
          (i < j /\ ImageEq(pk.images[i], pk.images[j])) =>
             /\ pk.points[j].x = pk.points[i].x
             /\ pk.points[j].y = pk.points[i].y
             /\ pk.points[j].rot = pk.points[i].rot
             /\ pk.points[j].dup_id >= 0
             /\ (\A k \in 1..(i - 1) :
                    ~ ImageEq(pk.images[k], pk.images[j]))
                  => pk.points[j].dup_id = i - 1

\* C8: free-list invariant.  After a place_rect no free rectangle is
\* contained in another one (so no two are equal).
C8_FreeListInvariant ==
    call.outcome = "placed" =>
        \A i, j \in 1..Len(free_rectangles) :
            i # j => ~ is_contained_in(free_rectangles[i], free_rectangles[j])

\* A placement left three or more free rectangles.
C8_Witness ==
    /\ pc = "api"
    /\ call.outcome = "placed"
    /\ Len(free_rectangles) >= 3

\* C9: area conservation.  The summed area of the used rectangles never
\* exceeds the bin area.
C9_AreaConservation ==
    used_surface_area(used_rectangles) <= bin_width * bin_height

\* Two or more rectangles fill the bin completely.
C9_Witness ==
    /\ pc = "api"
    /\ Len(used_rectangles) >= 2
    /\ used_surface_area(used_rectangles) = bin_width * bin_height

\* C10: after pack returns, points and images have the same length,
\* points[i] describes images[i] (the k-th separately placed image has the
\* k-th used rectangle as its footprint, a duplicate repeats the Point of
\* the equal image it names), and the images retained so far together with
\* the queue are exactly the input, in consumption order.
C10_PointsParallelImages ==
    pc = "returned" =>
      /\ Len(packer.points) = Len(packer.images)
      /\ \A i \in 1..Len(packer.points) :
           IF packer.points[i].dup_id < 0
           THEN Footprint(packer, i) = used_rectangles[
                    Cardinality({ k \in NonDuplicates(packer) : k <= i })]
           ELSE /\ packer.points[i].dup_id + 1 < i
                /\ ImageEq(packer.images[i],
                           packer.images[packer.points[i].dup_id + 1])
                /\ packer.points[i] =
                     [packer.points[packer.points[i].dup_id + 1]
                        EXCEPT !.dup_id = packer.points[i].dup_id]
      /\ input = images \o Reverse(packer.images)
                   \o Consumed(Len(packers))

\* pack returned with two images retained, one of them a duplicate, and an
\* image left in the queue.
C10_Witness ==
    /\ pc = "returned"
    /\ images # <<>>
    /\ Len(packer.images) >= 2
    /\ \E i \in 1..Len(packer.points) : packer.points[i].dup_id >= 0

\* The largest far edge of the separately placed footprints of a Packer.
MaxX(pk) ==
    LET far == { Footprint(pk, i).x + Footprint(pk, i).width :
                 i \in NonDuplicates(pk) }
    IN IF far = {} THEN 0 ELSE CHOOSE m \in far : \A e \in far : e <= m

MaxY(pk) ==
    LET far == { Footprint(pk, i).y + Footprint(pk, i).height :
                 i \in NonDuplicates(pk) }
    IN IF far = {} THEN 0 ELSE CHOOSE m \in far : \A e \in far : e <= m

\* n halved (integer division) zero or more times
RECURSIVE Halvings(_)
Halvings(n) == IF n = 0 THEN {0} ELSE {n} \cup Halvings(n \div 2)

\* C11: shrink.  A returned Packer that holds an image has the constructed
\* size halved some number of times as its width, the width covers the
\* largest placement far edge and half of it does not; likewise the height.
C11_Shrink ==
    \A pk \in ReturnedPackers :
        pk.images # <<>> =>
            /\ pk.width \in Halvings(opt.size)
            /\ pk.width >= MaxX(pk)
            /\ pk.width \div 2 < MaxX(pk)
            /\ pk.height \in Halvings(opt.size)
            /\ pk.height >= MaxY(pk)
            /\ pk.height \div 2 < MaxY(pk)

\* pack returned a bin whose width was halved and whose height was not.
C11_Witness ==
    /\ pc = "returned"
    /\ packer.images # <<>>
    /\ packer.width < opt.size
    /\ packer.height = opt.size

\* A step of pack in which insert returned the null sentinel for the image
\* popped from the queue.
RejectStep ==
    /\ pc = "pack"
    /\ images # <<>>
    /\ call'.outcome = "sentinel"
    /\ DuplicateIndex(packer, PopImage(images), opt.unique) < 0

\* C12: when insert returns the null sentinel inside pack, the rejected
\* image is put back at the end of the queue opposite to the one images
\* are popped from.
C12_PushedToOtherEnd ==
    [][ RejectStep =>
          images' = <<PopImage(images)>>
                      \o SubSeq(images, 1, Len(images) - 1) ]_vars

\* C12 as amended: the rejected image is put back at the end of the queue
\* it was popped from, so it is the image popped next.
C12_PushedBackWherePopped ==
    [][ RejectStep =>
          /\ Len(images') = Len(images)
          /\ PopImage(images') = PopImage(images) ]_vars

\* pack closed a bin on a rejected image with a different image below it
\* in the queue.
C12_Witness ==
    /\ pc = "shrink_width"
    /\ call.outcome = "sentinel"
    /\ Len(images) >= 2
    /\ images[1] # PopImage(images)

\* The unit cells a rectangle covers.
Cells(r) ==
    { <<i, j>> : i \in r.x..(r.x + r.width - 1),
                 j \in r.y..(r.y + r.height - 1) }

\* r shares a unit cell with a member of the collection.
OverlapsMember(rs, r) ==
    \E k \in 1..Len(rs) : Cells(rs[k]) \cap Cells(r) # {}

\* C14: add(r) returns false, leaving the collection unchanged, exactly
\* when r is non-degenerate and overlaps a member; for a degenerate r it
\* returns true and leaves the collection unchanged; otherwise it returns
\* true and appends r.
C14_AddContract ==
    pc = "collection" =>
      \A r \in RectPool :
        \E res \in { add(rects, r) } :
          LET degenerate == r.width = 0 \/ r.height = 0
              overlaps == OverlapsMember(rects, r)
          IN /\ (res.ret = FALSE) <=> (~ degenerate /\ overlaps)
             /\ (res.ret = FALSE) => res.rects = rects
             /\ degenerate => (res.ret = TRUE /\ res.rects = rects)
             /\ (~ degenerate /\ ~ overlaps) =>
                   (res.ret = TRUE /\ res.rects = Append(rects, r))

\* An add was refused by a collection that holds two rectangles.
C14_Witness ==
    /\ pc = "collection"
    /\ add_ret = "false"
    /\ Len(rects) = 2

\* C15: pack terminates.  Every call of pack comes to an end: the
\* consumption loop and both halving loops finish and pack returns (the
\* call being cut short by an abort of the process also ends it).
C15_PackTerminates ==
    (pc = "pack") ~> (pc \in {"returned", "panic"})

\* C16: once insert returned the null sentinel, pack consumes no further
\* image in that call: the step that meets the sentinel leaves the loop,
\* the images below the rejected one stay in the queue in their order and
\* nothing is added to the bin, and the rest of pack (the halving loops)
\* touches neither the queue nor the bin's images.
C16_BinClosedOnReject ==
    [][ /\ RejectStep =>
            /\ pc' # "pack"
            /\ SubSeq(images', 1, Len(images) - 1)
                  = SubSeq(images, 1, Len(images) - 1)
            /\ packer'.images = packer.images
            /\ packer'.points = packer.points
        /\ pc \in {"shrink_width", "shrink_height"} =>
            /\ images' = images
            /\ packer'.images = packer.images
            /\ packer'.points = packer.points ]_vars

\* pack returned after a rejection although an image left in the queue
\* below the rejected one still fits the bin's free rectangles.
C16_Witness ==
    /\ pc = "returned"
    /\ call.outcome = "sentinel"
    /\ \E k \in 1..(Len(images) - 1) :
          Fits(free_rectangles, images[k].width + packer.pad,
               images[k].height + packer.pad, opt.rotate)

Area(image) == image.width * image.height

\* C17: largest-first.  The queue stays sorted ascending by area, every
\* bin's images are in non-increasing area order and no smaller than any
\* image still queued, and after a rejection the image the next bin pops
\* first is one the closed bin rejects.
C17_LargestFirst ==
    /\ SortedByArea(images)
    /\ \A pk \in AllPackers :
          /\ \A i, j \in 1..Len(pk.images) :
                i < j => Area(pk.images[i]) >= Area(pk.images[j])
          /\ \A i \in 1..Len(pk.images), k \in 1..Len(images) :
                Area(pk.images[i]) >= Area(images[k])
    /\ call.outcome = "sentinel" =>
          /\ images # <<>>
          /\ insert(free_rectangles, used_rectangles, bin_width, bin_height,
                    PopImage(images).width + packer.pad,
                    PopImage(images).height + packer.pad,
                    opt.rotate, opt.heuristic,
                    overflow_checks).outcome = "sentinel"

\* A second bin holds the image the first bin rejected, and the first bin
\* holds two images of different area.
C17_Witness ==
    /\ Len(packers) = 1
    /\ pc = "pack"
    /\ Len(packer.images) = 1
    /\ \E i, j \in 1..Len(packers[1].images) :
          Area(packers[1].images[i]) > Area(packers[1].images[j])

\* The fitting candidates of an item: a free rectangle (its index k) with
\* an allowed orientation of the item (the size it would be placed with).
Candidates(free, width, height, rot) ==
    { c \in [k : 1..Len(free), width : {width, height},
             height : {width, height}] :
        /\ \/ c.width = width /\ c.height = height
           \/ rot /\ c.width = height /\ c.height = width
        /\ free[c.k].width >= c.width
        /\ free[c.k].height >= c.height }

CandidateNode(free, c) == Rect(free[c.k].x, free[c.k].y, c.width, c.height)

LeftoverMin(free, c) ==
    Min(free[c.k].width - c.width, free[c.k].height - c.height)

LeftoverMax(free, c) ==
    Max(free[c.k].width - c.width, free[c.k].height - c.height)

LexLeq(a1, a2, b1, b2) == a1 < b1 \/ (a1 = b1 /\ a2 <= b2)

\* The item sizes and rotation flags the heuristics are examined with.
Items == [width : 1..MaxDim, height : 1..MaxDim, rot : BOOLEAN]

\* C18: Best Short Side Fit.  A successful insert commits a candidate whose
\* pair (min leftover, max leftover) is lexicographically minimal among the
\* fitting candidates, and score_rect reports that pair as (score1, score2).
C18_BestShortSideFit ==
    Callable =>
      \A it \in Items :
        \E s \in { score_rect(free_rectangles, used_rectangles, bin_width,
                              bin_height, it.width, it.height, it.rot,
                              "RectBestShortSideFit") } :
          s.node.height > 0 =>
            \E c \in Candidates(free_rectangles, it.width, it.height,
                                it.rot) :
              /\ CandidateNode(free_rectangles, c) = s.node
              /\ \A d \in Candidates(free_rectangles, it.width, it.height,
                                     it.rot) :
                    LexLeq(LeftoverMin(free_rectangles, c),
                           LeftoverMax(free_rectangles, c),
                           LeftoverMin(free_rectangles, d),
                           LeftoverMax(free_rectangles, d))
              /\ s.score1 = LeftoverMin(free_rectangles, c)
              /\ s.score2 = LeftoverMax(free_rectangles, c)

\* C19: Best Long Side Fit.  A successful insert commits a candidate whose
\* pair (max leftover, min leftover) is lexicographically minimal among the
\* fitting candidates, and score_rect reports the max leftover of that
\* candidate as score1 and its min leftover as score2.
C19_BestLongSideFit ==
    Callable =>
      \A it \in Items :
        \E s \in { score_rect(free_rectangles, used_rectangles, bin_width,
                              bin_height, it.width, it.height, it.rot,
                              "RectBestLongSideFit") } :
          s.node.height > 0 =>
            \E c \in Candidates(free_rectangles, it.width, it.height,
                                it.rot) :
              /\ CandidateNode(free_rectangles, c) = s.node
              /\ \A d \in Candidates(free_rectangles, it.width, it.height,
                                     it.rot) :
                    LexLeq(LeftoverMax(free_rectangles, c),
                           LeftoverMin(free_rectangles, c),
                           LeftoverMax(free_rectangles, d),
                           LeftoverMin(free_rectangles, d))
              /\ s.score1 = LeftoverMax(free_rectangles, c)
              /\ s.score2 = LeftoverMin(free_rectangles, c)

\* The contact score of a candidate's own footprint: the item in the tried
\* orientation at the free rectangle's origin.
FootprintContact(free, used, bw, bh, c) ==
    (IF free[c.k].x = 0 \/ free[c.k].x + c.width = bw THEN c.height ELSE 0)
    + (IF free[c.k].y = 0 \/ free[c.k].y + c.height = bh
       THEN c.width ELSE 0)
    + ContactUsedSum(used, 1, free[c.k].x, free[c.k].y, c.width, c.height)

\* C20: Contact Point.  A successful insert commits the candidate with the
\* highest contact score, the score being that of the item's own footprint.
C20_ContactPoint ==
    Callable =>
      \A it \in Items :
        \E s \in { score_rect(free_rectangles, used_rectangles, bin_width,
                              bin_height, it.width, it.height, it.rot,
                              "RectContactPointRule") } :
          s.node.height > 0 =>
            \E c \in Candidates(free_rectangles, it.width, it.height,
                                it.rot) :
              /\ CandidateNode(free_rectangles, c) = s.node
              /\ \A d \in Candidates(free_rectangles, it.width, it.height,
                                     it.rot) :
                    FootprintContact(free_rectangles, used_rectangles,
                                     bin_width, bin_height, c)
                    >= FootprintContact(free_rectangles, used_rectangles,
                                        bin_width, bin_height, d)

\* The free rectangle's area minus the item's area
AreaFit(free, c) ==
    free[c.k].width * free[c.k].height - c.width * c.height

\* The place of a candidate in the order the heuristics meet them: free
\* list order, the upright orientation before the rotated one.
MetOrder(c, it) ==
    2 * c.k + (IF c.width = it.width /\ c.height = it.height THEN 0 ELSE 1)

\* insert called with an item under one heuristic on the MaxRectsBinPack
\* as it stands
InsertItem(it, method) ==
    InsertNow([width |-> it.width, height |-> it.height, rot |-> it.rot,
               method |-> method])

\* C21: Best Area Fit.  A successful insert commits a candidate whose pair
\* (free area minus item area, min leftover) is lexicographically minimal
\* among the fitting candidates, and among the candidates with that pair
\* the one met first.
C21_BestAreaFit ==
    Callable =>
      \A it \in Items :
        \E r \in { InsertItem(it, "RectBestAreaFit") } :
          r.outcome = "placed" =>
            \E c \in Candidates(free_rectangles, it.width, it.height,
                                it.rot) :
              /\ CandidateNode(free_rectangles, c) = r.ret
              /\ \A d \in Candidates(free_rectangles, it.width, it.height,
                                     it.rot) :
                    /\ LexLeq(AreaFit(free_rectangles, c),
                              LeftoverMin(free_rectangles, c),
                              AreaFit(free_rectangles, d),
                              LeftoverMin(free_rectangles, d))
                    /\ ( /\ AreaFit(free_rectangles, d)
                              = AreaFit(free_rectangles, c)
                         /\ LeftoverMin(free_rectangles, d)
                              = LeftoverMin(free_rectangles, c) )
                       => MetOrder(c, it) <= MetOrder(d, it)

\* After a placement a Best Area Fit insert succeeds where candidates in
\* two free rectangles, with different nodes, tie on the whole pair.
C21_Witness ==
    /\ Callable
    /\ call.outcome = "placed"
    /\ \E it \in Items :
         /\ InsertItem(it, "RectBestAreaFit").outcome = "placed"
         /\ \E c, d \in Candidates(free_rectangles, it.width, it.height,
                                   it.rot) :
              /\ CandidateNode(free_rectangles, c)
                   = InsertItem(it, "RectBestAreaFit").ret
              /\ CandidateNode(free_rectangles, d)
                   # CandidateNode(free_rectangles, c)
              /\ d.k # c.k
              /\ AreaFit(free_rectangles, d) = AreaFit(free_rectangles, c)
              /\ LeftoverMin(free_rectangles, d)
                   = LeftoverMin(free_rectangles, c)

\* C22: Bottom-Left.  A successful insert commits a candidate whose pair
\* (free.y + placed height, free.x) is lexicographically minimal among the
\* fitting candidates.
C22_BottomLeft ==
    Callable =>
      \A it \in Items :
        \E r \in { InsertItem(it, "RectBottomLeftRule") } :
          r.outcome = "placed" =>
            \E c \in Candidates(free_rectangles, it.width, it.height,
                                it.rot) :
              /\ CandidateNode(free_rectangles, c) = r.ret
              /\ \A d \in Candidates(free_rectangles, it.width, it.height,
                                     it.rot) :
                    LexLeq(free_rectangles[c.k].y + c.height,
                           free_rectangles[c.k].x,
                           free_rectangles[d.k].y + d.height,
                           free_rectangles[d.k].x)

\* A Bottom-Left insert succeeds where a candidate met earlier has the
\* same top edge and a larger x than the committed one.
C22_Witness ==
    /\ Callable
    /\ \E it \in Items :
         /\ InsertItem(it, "RectBottomLeftRule").outcome = "placed"
         /\ \E c, d \in Candidates(free_rectangles, it.width, it.height,
                                   it.rot) :
              /\ CandidateNode(free_rectangles, c)
                   = InsertItem(it, "RectBottomLeftRule").ret
              /\ d.k < c.k
              /\ free_rectangles[d.k].y + d.height
                   = free_rectangles[c.k].y + c.height
              /\ free_rectangles[d.k].x > free_rectangles[c.k].x

(***************************************************************************)
(* C23: the geometry of a returned rectangle                               *)
(***************************************************************************)
\* C23: every rectangle a successful insert(w, h, rot, heuristic) returns
\* has the size (w, h), or (h, w) only when rot is set; its origin is the
\* origin of a free rectangle of the free set the call started from, and it
\* lies entirely inside that free rectangle.
C23_ReturnedGeometry ==
    Callable =>
      \A c \in Calls :
        \A r \in { InsertNow(c) } :
          r.outcome = "placed" =>
            /\ \/ r.ret.width = c.width /\ r.ret.height = c.height
               \/ c.rot /\ r.ret.width = c.height /\ r.ret.height = c.width
            /\ \E k \in 1..Len(free_rectangles) :
                  /\ r.ret.x = free_rectangles[k].x
                  /\ r.ret.y = free_rectangles[k].y
                  /\ is_contained_in(r.ret, free_rectangles[k])

\* After a placement a rotating insert returns the item turned, at the
\* origin of a free rectangle that is not the first of the free list and
\* not at the bin's origin.
C23_Witness ==
    /\ Callable
    /\ call.outcome = "placed"
    /\ \E c \in Calls :
         \E r \in { InsertNow(c) } :
           /\ r.outcome = "placed"
           /\ c.rot
           /\ c.width # c.height
           /\ r.ret.width = c.height /\ r.ret.height = c.width
           /\ <<r.ret.x, r.ret.y>> # <<0, 0>>
           /\ \E k \in 2..Len(free_rectangles) :
                 /\ r.ret.x = free_rectangles[k].x
                 /\ r.ret.y = free_rectangles[k].y
                 /\ is_contained_in(r.ret, free_rectangles[k])

(***************************************************************************)
(* C24: the rotation flag of a Point                                       *)
(***************************************************************************)
\* The index (1-based) in pk.points of the n-th point that is not a
\* duplicate: pack pushes one used rectangle per such point, in order.
NthPlaced(pk, n) ==
    CHOOSE i \in NonDuplicates(pk) :
        Cardinality({ j \in NonDuplicates(pk) : j <= i }) = n

\* The Packer being packed and its MaxRectsBinPack belong together.
Packing == pc \in {"pack", "shrink_width", "shrink_height", "returned", "panic"}

\* C24: for every Point that is not a duplicate, rot is set exactly when
\* rotation is enabled and the placed width less the padding differs from
\* the image's width; with rotation disabled rot is false and the placed
\* rectangle's size is (image.width + pad, image.height + pad).
C24_RotationFlag ==
    Packing =>
      /\ Cardinality(NonDuplicates(packer)) = Len(used_rectangles)
      /\ \A n \in 1..Len(used_rectangles) :
           \A i \in { NthPlaced(packer, n) } :
             /\ packer.points[i].x = used_rectangles[n].x
             /\ packer.points[i].y = used_rectangles[n].y
             /\ packer.points[i].rot <=>
                  (opt.rotate /\ used_rectangles[n].width - packer.pad
                                   # packer.images[i].width)
             /\ ~ opt.rotate =>
                  /\ ~ packer.points[i].rot
                  /\ used_rectangles[n].width
                       = packer.images[i].width + packer.pad
                  /\ used_rectangles[n].height
                       = packer.images[i].height + packer.pad

\* A padded bin holds an image that was placed turned: the placed width
\* less the padding is the image's height, not its width.
C24_Witness ==
    /\ Packing
    /\ opt.rotate
    /\ packer.pad = 1
    /\ \E n \in 1..Len(used_rectangles) :
         \E i \in { NthPlaced(packer, n) } :
           /\ packer.points[i].rot
           /\ used_rectangles[n].width - packer.pad
                = packer.images[i].height
           /\ packer.images[i].height # packer.images[i].width

(***************************************************************************)
(* C25, C26: insert_list                                                   *)
(***************************************************************************)
\* What score_rect gives each remaining rect (1-based) on the bin as it
\* stands.
RoundScores ==
    [k \in 1..Len(list_rects) |->
        score_rect(free_rectangles, used_rectangles, bin_width, bin_height,
                   list_rects[k].width, list_rects[k].height, list_rot,
                   list_method)]

\* The contact scores the contact-point heuristic computes for an item on
\* the bin as it stands: one per free rectangle and orientation that holds
\* the item, taken over the free rectangle's extent as the code passes it.
ContactScores(width, height, rot) ==
    { contact_point_score_node(used_rectangles, bin_width, bin_height,
          free_rectangles[k].x, free_rectangles[k].y,
          free_rectangles[k].width, free_rectangles[k].height) :
        k \in { m \in 1..Len(free_rectangles) :
                  /\ free_rectangles[m].width >= width
                  /\ free_rectangles[m].height >= height } }
    \cup
    { contact_point_score_node(used_rectangles, bin_width, bin_height,
          free_rectangles[k].x, free_rectangles[k].y,
          free_rectangles[k].height, free_rectangles[k].width) :
        k \in { m \in 1..Len(free_rectangles) :
                  /\ rot
                  /\ free_rectangles[m].width >= height
                  /\ free_rectangles[m].height >= width } }

\* C25: in each round of insert_list the rect committed is the one whose
\* (score1, score2) from score_rect is lexicographically smallest over the
\* remaining rects, the earliest of them on a full tie; a rect that does
\* not fit scores (i32::MAX, i32::MAX) and contact point scores the negated
\* contact score as score1; exactly that rect leaves the remaining list.
C25_RoundCommitsBest ==
    [][ (pc = "insert_list" /\ dst' # dst) =>
          \E S \in { RoundScores } :
            /\ \A j \in DOMAIN S :
                 IF Fits(free_rectangles, list_rects[j].width,
                         list_rects[j].height, list_rot)
                 THEN /\ S[j].node.height # 0
                      /\ list_method = "RectContactPointRule" =>
                           \E T \in { ContactScores(list_rects[j].width,
                                          list_rects[j].height, list_rot) } :
                             /\ 0 - S[j].score1 \in T
                             /\ \A t \in T : t <= 0 - S[j].score1
                 ELSE S[j].score1 = I32Max /\ S[j].score2 = I32Max
            /\ \E k \in DOMAIN S :
                 /\ S[k].node.height # 0
                 /\ \A j \in DOMAIN S :
                      LexLeq(S[k].score1, S[k].score2,
                             S[j].score1, S[j].score2)
                 /\ \A j \in 1..(k - 1) :
                      ~ (S[j].score1 = S[k].score1
                         /\ S[j].score2 = S[k].score2)
                 /\ dst' = Append(dst, S[k].node)
                 /\ used_rectangles' = Append(used_rectangles, S[k].node)
                 /\ Len(list_rects') = Len(list_rects) - 1
                 /\ \A m \in 1..Len(list_rects') :
                      list_rects'[m]
                        = IF m < k THEN list_rects[m] ELSE list_rects[m + 1]
      ]_vars

\* The unit cells of the bin.
BinCells == { <<i, j>> : i \in 0..(bin_width - 1), j \in 0..(bin_height - 1) }

\* An item of the size has room, in an allowed orientation, inside a set
\* of unit cells of the bin.
HasRoom(cells, width, height, rot) ==
    \/ \E x \in 0..(bin_width - width), y \in 0..(bin_height - height) :
          Cells(Rect(x, y, width, height)) \subseteq cells
    \/ /\ rot
       /\ \E x \in 0..(bin_width - height), y \in 0..(bin_height - width) :
             Cells(Rect(x, y, height, width)) \subseteq cells

\* On a bin that held one rectangle, a round has committed the second rect
\* of a list of two although it comes later: the first rect had no room in
\* the area the rectangle left, so it scored (i32::MAX, i32::MAX), and it is
\* what remains.
C25_Witness ==
    /\ pc = "insert_list"
    /\ Len(list_src) = 2
    /\ Len(dst) = 1
    /\ Len(used_rectangles) = 2
    /\ list_rects = << list_src[1] >>
    /\ ~ HasRoom(BinCells \ Cells(used_rectangles[1]),
                 list_src[1].width, list_src[1].height, list_rot)
    /\ HasRoom(BinCells, list_src[1].width, list_src[1].height, list_rot)

\* What identifies an input rect in the output: its size, up to the swap
\* when rotation is allowed.
SizeKey(r, rot) ==
    IF rot THEN << Min(r.width, r.height), Max(r.width, r.height) >>
    ELSE << r.width, r.height >>

\* How many rects of a list have the size key.
SizeCount(list, key, rot) ==
    Cardinality({ k \in 1..Len(list) : SizeKey(list[k], rot) = key })

\* insert_list has returned: every placement of dst is non-null and was
\* committed to the bin, dst is no longer than the input, every size is
\* placed at most as often as the input holds it, and a size placed less
\* often fits no free rectangle of the final free list.
ListPostcondition ==
    /\ Len(dst) <= Len(list_src)
    /\ \A m \in 1..Len(dst) :
         /\ dst[m] # RectDefault
         /\ dst[m].width > 0 /\ dst[m].height > 0
         /\ dst[m] = used_rectangles[Len(used_rectangles) - Len(dst) + m]
    /\ \A key \in { SizeKey(list_src[k], list_rot) : k \in 1..Len(list_src) }
                   \cup { SizeKey(dst[m], list_rot) : m \in 1..Len(dst) } :
         /\ SizeCount(dst, key, list_rot) <= SizeCount(list_src, key, list_rot)
         /\ SizeCount(dst, key, list_rot) < SizeCount(list_src, key, list_rot)
              => ~ Fits(free_rectangles, key[1], key[2], list_rot)

\* C26: insert_list terminates (by returning, or by the panic of the prune
\* in a build that checks overflow), and when it returns each input rect is
\* represented by exactly one non-null placement of the output (same size,
\* swapped only if rotation is allowed) or fits no free rectangle of the
\* final free list in any allowed orientation; the output holds no null
\* sentinel and is no longer than the input.
C26_InsertListTotal ==
    /\ [](pc = "list_returned" => ListPostcondition)
    /\ (pc = "insert_list" ~> pc \in {"list_returned", "list_panic"})

\* insert_list has returned from a list of two rects of which one was
\* placed turned and the other fits nowhere any more.
C26_Witness ==
    /\ pc = "list_returned"
    /\ Len(list_src) = 2
    /\ Len(dst) = 1
    /\ list_rot
    /\ \E k \in 1..2 :
          /\ dst[1].width = list_src[k].height
          /\ dst[1].height = list_src[k].width
          /\ dst[1].width # dst[1].height
    /\ ~ Fits(free_rectangles, list_rects[1].width, list_rects[1].height, list_rot)

(***************************************************************************)
(* C27, C28: duplicates in Packer::pack                                    *)
(***************************************************************************)
\* pack is about to consume an image whose fingerprint is in the lookup
\* table of the Packer.
FingerprintHit ==
    /\ pc = "pack"
    /\ images # <<>>
    /\ opt.unique
    /\ PopImage(images).hash_value \in DOMAIN packer.dup_lookup

\* The image the lookup table names for the image pack is about to consume.
LookupImage == packer.images[packer.dup_lookup[PopImage(images).hash_value] + 1]

\* C27: a Point is marked a duplicate (dup_id >= 0) only if dedup is
\* enabled, and then dup_id is the index of an earlier image of the same
\* Packer whose own Point is not a duplicate and whose dimensions and
\* content equal the image's; an image whose fingerprint matches but whose
\* content differs is never aliased: it goes through insert.
C27_DuplicateMarking ==
    /\ [](\A pk \in AllPackers :
            \A j \in 1..Len(pk.points) :
              pk.points[j].dup_id >= 0 =>
                /\ opt.unique
                /\ pk.points[j].dup_id + 1 < j
                /\ pk.points[pk.points[j].dup_id + 1].dup_id = -1
                /\ pk.images[j].width = pk.images[pk.points[j].dup_id + 1].width
                /\ pk.images[j].height = pk.images[pk.points[j].dup_id + 1].height
                /\ pk.images[j].data = pk.images[pk.points[j].dup_id + 1].data)
    /\ [][ (/\ FingerprintHit
            /\ \/ PopImage(images).data # LookupImage.data
               \/ PopImage(images).width # LookupImage.width
               \/ PopImage(images).height # LookupImage.height) =>
             /\ call'.outcome \in {"sentinel", "placed", "abort"}
             /\ call'.outcome = "placed" <=>
                  Len(packer'.points) = Len(packer.points) + 1
             /\ call'.outcome = "placed" =>
                  /\ packer'.points[Len(packer'.points)].dup_id = -1
                  /\ Len(used_rectangles') = Len(used_rectangles) + 1
             /\ call'.outcome # "placed" => packer' = packer ]_vars

\* A bin holds a duplicate and an image that went through insert although
\* its fingerprint matched an earlier image of different content.
C27_Witness ==
    /\ pc = "pack"
    /\ \E i, j, k \in 1..Len(packer.points) :
          /\ packer.points[j].dup_id >= 0
          /\ i < k
          /\ packer.images[i].hash_value = packer.images[k].hash_value
          /\ \/ packer.images[i].width # packer.images[k].width
             \/ packer.images[i].height # packer.images[k].height
             \/ packer.images[i].data # packer.images[k].data
          /\ packer.points[i].dup_id = -1
          /\ packer.points[k].dup_id = -1

\* pack is about to consume a confirmed duplicate: the fingerprint is in
\* the lookup table and the image named there has equal dimensions and
\* content.
ConfirmedDuplicate ==
    /\ FingerprintHit
    /\ PopImage(images).width = LookupImage.width
    /\ PopImage(images).height = LookupImage.height
    /\ PopImage(images).data = LookupImage.data

\* C28: consuming a confirmed duplicate leaves the engine's free and used
\* lists, the observed bounds (ww, hh) and the lookup table unchanged; it
\* only appends one image and one Point (the alias of the earlier one).
C28_DuplicateFrame ==
    [][ ConfirmedDuplicate =>
          /\ free_rectangles' = free_rectangles
          /\ used_rectangles' = used_rectangles
          /\ ww' = ww
          /\ hh' = hh
          /\ packer'.dup_lookup = packer.dup_lookup
          /\ packer'.width = packer.width
          /\ packer'.height = packer.height
          /\ packer'.pad = packer.pad
          /\ packer'.images = Append(packer.images, PopImage(images))
          /\ Len(packer'.points) = Len(packer.points) + 1
          /\ SubSeq(packer'.points, 1, Len(packer.points)) = packer.points
          /\ packer'.points[Len(packer'.points)].dup_id
               = packer.dup_lookup[PopImage(images).hash_value]
      ]_vars

\* A duplicate was consumed by a Packer whose bin holds two placements and
\* whose bounds are not zero.
C28_Witness ==
    /\ pc = "pack"
    /\ Len(packer.points) >= 3
    /\ packer.points[Len(packer.points)].dup_id >= 0
    /\ Len(used_rectangles) = 2
    /\ ww > 0 /\ hh > 0
    /\ DOMAIN packer.dup_lookup # {}

(***************************************************************************)
(* C29: the free rectangles of a MaxRectsBinPack                           *)
(***************************************************************************)
\* C29: in every reachable state of a MaxRectsBinPack (positive insert
\* sizes) every free rectangle has positive width and height, lies inside
\* [0, bin_width] x [0, bin_height] and intersects no used rectangle.
C29_FreeRectangles ==
    \A k \in 1..Len(free_rectangles) :
      \A f \in { free_rectangles[k] } :
        /\ f.width > 0
        /\ f.height > 0
        /\ f.x >= 0
        /\ f.y >= 0
        /\ f.x + f.width <= bin_width
        /\ f.y + f.height <= bin_height
        /\ \A u \in 1..Len(used_rectangles) :
             Cells(f) \cap Cells(used_rectangles[u]) = {}

\* Two placements have left at least two free rectangles, one of which
\* touches neither the left nor the bottom edge of the bin.
C29_Witness ==
    /\ pc = "api"
    /\ call.outcome = "placed"
    /\ Len(used_rectangles) >= 2
    /\ Len(free_rectangles) >= 2
    /\ \E k \in 1..Len(free_rectangles) :
          free_rectangles[k].x > 0 /\ free_rectangles[k].y > 0

(***************************************************************************)
(* C30: the DisjointRectCollection invariant                               *)
(***************************************************************************)
\* C30: after any sequence of add and clear calls the stored rectangles of
\* a DisjointRectCollection are pairwise non-overlapping (no two share a
\* unit cell) and none is degenerate (zero width or height).
C30_CollectionInvariant ==
    pc = "collection" =>
      /\ \A i \in 1..Len(rects) :
           rects[i].width # 0 /\ rects[i].height # 0
      /\ \A i, j \in 1..Len(rects) :
           i < j => Cells(rects[i]) \cap Cells(rects[j]) = {}

\* The collection holds three rectangles, the last call having been an add
\* that was accepted.
C30_Witness ==
    /\ pc = "collection"
    /\ Len(rects) = 3
    /\ add_ret = "true"

(***************************************************************************)
(* C31: the two Rect comparators                                           *)
(***************************************************************************)
\* The lexicographic order of two integer tuples of the same length.
LexOrder(s, t) ==
    IF s = t THEN "Equal"
    ELSE LET k == CHOOSE i \in 1..Len(s) :
                     s[i] # t[i] /\ \A j \in 1..(i - 1) : s[j] = t[j]
         IN IF s[k] < t[k] THEN "Less" ELSE "Greater"

\* Ordering::reverse
Reversed(o) == CASE o = "Less" -> "Greater" [] o = "Greater" -> "Less" [] o = "Equal" -> "Equal"

ShortSideKey(r) == << Min(r.width, r.height), Max(r.width, r.height) >>
PositionKey(r) == << r.x, r.y, r.width, r.height >>

\* What the comparator last called gives for any two Rects.
LastCmp(a, b) ==
    IF cmp_ret.fn = "compare_rect_short_side"
    THEN compare_rect_short_side(a, b)
    ELSE node_sort_cmp(a, b)

\* The key the comparator last called is said to order by.
LastKey(r) ==
    IF cmp_ret.fn = "compare_rect_short_side" THEN ShortSideKey(r)
    ELSE PositionKey(r)

\* The comparator last called returned the lexicographic order of the keys
\* of its arguments, the reverse of what it gives for the swapped
\* arguments, and is transitive through every third Rect.
ComparatorLaws ==
    \A a \in { cmp_args[1] } : \A b \in { cmp_args[2] } :
      /\ cmp_ret.ordering = LexOrder(LastKey(a), LastKey(b))
      /\ LastCmp(b, a) = Reversed(cmp_ret.ordering)
      /\ \A c \in RectPool :
           /\ (cmp_ret.ordering # "Greater" /\ LastCmp(b, c) # "Greater")
                => LastCmp(a, c) # "Greater"
           /\ (cmp_ret.ordering = "Less" /\ LastCmp(b, c) # "Greater")
                => LastCmp(a, c) = "Less"
           /\ (cmp_ret.ordering # "Greater" /\ LastCmp(b, c) = "Less")
                => LastCmp(a, c) = "Less"

\* C31 as stated: both comparators are total orderings, by (min(width,
\* height), max(width, height)) and by (x, y, width, height): cmp(a, b) is
\* the reverse of cmp(b, a), the relation is transitive, and Equal is
\* returned only for rectangles that are equal.
C31_TotalOrderings ==
    cmp_ret.fn # "none" =>
      /\ ComparatorLaws
      /\ cmp_ret.ordering = "Equal" => cmp_args[1] = cmp_args[2]

\* C31 amended: both comparators order lexicographically by their key,
\* cmp(a, b) is the reverse of cmp(b, a) and the relation is transitive;
\* node_sort_cmp returns Equal exactly for equal rectangles,
\* compare_rect_short_side exactly for rectangles with the same shorter and
\* the same longer side, wherever they lie and whichever way they are
\* turned.
C31_TotalPreorders ==
    cmp_ret.fn # "none" =>
      /\ ComparatorLaws
      /\ cmp_ret.fn = "node_sort_cmp" =>
           (cmp_ret.ordering = "Equal" <=> cmp_args[1] = cmp_args[2])
      /\ cmp_ret.fn = "compare_rect_short_side" =>
           (cmp_ret.ordering = "Equal" <=>
              /\ Min(cmp_args[1].width, cmp_args[1].height)
                   = Min(cmp_args[2].width, cmp_args[2].height)
              /\ Max(cmp_args[1].width, cmp_args[1].height)
                   = Max(cmp_args[2].width, cmp_args[2].height))

\* compare_rect_short_side has returned Equal for a rectangle and its
\* quarter turn at another position.
C31_Witness ==
    /\ cmp_ret.fn = "compare_rect_short_side"
    /\ cmp_ret.ordering = "Equal"
    /\ cmp_args[1].width = cmp_args[2].height
    /\ cmp_args[1].height = cmp_args[2].width
    /\ cmp_args[1].width # cmp_args[1].height
    /\ cmp_args[1].x # cmp_args[2].x

(***************************************************************************)
(* C32: the index of prune_free_list                                       *)
(***************************************************************************)
\* C32: during prune_free_list the unsigned index i is never decremented
\* while it is 0 (in a build that checks overflow the decrement is the
\* abort of the model, whatever build the bin at hand belongs to), so no
\* insert reachable from a fresh bin aborts and every call ends with a
\* placement or the sentinel.
C32_NoIndexUnderflow ==
    /\ call.outcome # "abort"
    /\ Callable =>
         \A c \in Calls :
           /\ InsertNow(c).outcome \in {"placed", "sentinel"}
           /\ insert(free_rectangles, used_rectangles, bin_width,
                     bin_height, c.width, c.height, c.rot, c.method,
                     TRUE).outcome # "abort"

(***************************************************************************)
(* C33: coverage of the bin                                                *)
(***************************************************************************)
\* The unit cells covered by a member of a list of rectangles.
Covered(rs) == UNION { Cells(rs[k]) : k \in 1..Len(rs) }

\* C33: in every reachable state of a MaxRectsBinPack the union of the
\* free rectangles is exactly the bin area no used rectangle covers: every
\* unit cell of the bin is covered by a used rectangle or by at least one
\* free rectangle, never both; splitting and pruning lose no available
\* area.  The state a panic of prune_free_list leaves is one of the
\* reachable states.
C33_Coverage ==
    \E U \in { Covered(used_rectangles) } :
      \E F \in { Covered(free_rectangles) } :
        /\ U \cup F = BinCells
        /\ U \cap F = {}

====
